---- MODULE Spec2Model ----
(***************************************************************************)
(* Model of autollm's change detection: utils/hash_utils.py                *)
(*   get_md5(file_path)              -- the content fingerprinter          *)
(*   check_for_changes(documents,vs) -- the reconciler                     *)
(* Paths, record ids and document ids are small integers.  A document's    *)
(* metadata["original_file_path"] is taken to be canonical already (the    *)
(* loader's contract), so str(Path(p)) leaves it as it is.                 *)
(***************************************************************************)
EXTENDS Integers, Sequences, FiniteSets, TLC

\* ---------------------------------------------------------------- bounds
NumPaths   == 2      \* distinct file paths
NumIds     == 2      \* distinct ids (record ids and document ids)
MaxDocs    == 2      \* length of the documents sequence
MaxRecords == 2      \* records held by the vector store
MaxFileLen == 1      \* length of a file of the reconciler's file system
MaxChunks  == 2      \* whole chunks in a file given to the fingerprinter
NumSeeds   == 3      \* byte patterns of the fingerprinter's files
MaxCalls   == 2      \* successive get_md5 calls on the same bytes
MaxRuns    == 2      \* successive check_for_changes calls

\* ------------------------------------------------------ program constants
ChunkSize == 4096    \* f.read(4096)

Paths == 1..NumPaths
Ids   == 1..NumIds

Min(a, b) == IF a < b THEN a ELSE b
Elems(s)  == {s[k] : k \in 1..Len(s)}

\* bytes of a file of length n following pattern s
Pattern(n, s) == [k \in 1..n |-> (k * s) % 256]

\* ============================================================ get_md5 ===
\* hashlib.md5(): a hasher is what it has absorbed so far; update() appends.
md5_new == [absorbed |-> <<>>]

update(hasher, chunk) == [absorbed |-> hasher.absorbed \o chunk]

\* the digest of s[lo..hi] as <<hash, base^(hi-lo+1)>>, both modulo 32749
RECURSIVE PolyHash(_, _, _)
PolyHash(s, lo, hi) ==
    IF lo > hi THEN <<0, 1>>
    ELSE IF lo = hi THEN <<(s[lo] + 1) % 32749, 257>>
    ELSE LET mid == (lo + hi) \div 2
             l   == PolyHash(s, lo, mid)
             r   == PolyHash(s, mid + 1, hi)
         IN  <<(l[1] * r[2] + r[1]) % 32749, (l[2] * r[2]) % 32749>>

\* hasher.hexdigest(): a function of the absorbed bytes and their number
hexdigest(hasher) ==
    <<Len(hasher.absorbed), PolyHash(hasher.absorbed, 1, Len(hasher.absorbed))[1]>>

\* f.read(n) at offset pos: at most n bytes, b"" at end of file
f_read(content, pos, n) == SubSeq(content, pos + 1, Min(pos + n, Len(content)))

\* the state of get_md5 after `hasher = hashlib.md5()` and open()
md5_open == [pos |-> 0, hasher |-> md5_new, chunk |-> <<>>, eof |-> FALSE]

\* a loop that stops at the first short chunk, without hashing it
md5_read_short(content, st) ==
    LET chunk == f_read(content, st.pos, ChunkSize)
    IN  IF Len(chunk) < ChunkSize
        THEN [st EXCEPT !.chunk = chunk, !.eof = TRUE]
        ELSE [pos    |-> st.pos + Len(chunk),
              hasher |-> update(st.hasher, chunk),
              chunk  |-> chunk,
              eof    |-> FALSE]

\* one turn of `for chunk in iter(lambda: f.read(4096), b"")`
md5_read(content, st) ==
    LET chunk == f_read(content, st.pos, ChunkSize)
    IN  IF chunk = <<>>
        THEN [st EXCEPT !.chunk = chunk, !.eof = TRUE]
        ELSE [pos    |-> st.pos + Len(chunk),
              hasher |-> update(st.hasher, chunk),
              chunk  |-> chunk,
              eof    |-> FALSE]

RECURSIVE md5_loop(_, _)
md5_loop(content, st) ==
    IF st.eof THEN st ELSE md5_loop(content, md5_read(content, st))

get_md5(content) == hexdigest(md5_loop(content, md5_open).hasher)

\* ================================================== check_for_changes ===
\* files of the reconciler's file system, and the digests they can have
Contents == {Pattern(n, 1) : n \in 0..MaxFileLen}
Digests  == {get_md5(c) : c \in Contents}

Records   == [id : Ids, path : Paths, hash : Digests]
Documents == [id_ : Ids, path : Paths]

SeqsUpTo(S, n) == UNION {[1..m -> S] : m \in 0..n}

\* a stored snapshot is well formed: record ids unique, paths unique.  Ids are
\* opaque and the order of the records is the store's business, so the
\* records are taken in path order with their position as id.
WellFormed(recs) ==
    /\ \A k \in 1..Len(recs) : recs[k].id = k
    /\ \A a, b \in 1..Len(recs) : a < b => recs[a].path < recs[b].path

\* the loader gives every document of a run its own id_
DistinctIds(docs) ==
    \A a, b \in 1..Len(docs) : a # b => docs[a].id_ # docs[b].id_

FileSystems == UNION {[S -> Contents] : S \in SUBSET Paths}

VARIABLES
    store,                \* the vector store's records
    fs,                   \* path -> bytes, for the files that exist
    documents,            \* the argument `documents`
    pc,                   \* "idle", "loop", "returned", "raised", "applied"
    last_hashes, original_file_names, document_ids,   \* line 44
    changed_documents, deleted_document_ids,          \* lines 47, 48
    i,                    \* position of `for doc in documents`
    err,                  \* the exception that ended the call, or "none"
    result,               \* <<changed_documents, deleted_document_ids>> or <<>>
    store_reads,          \* reads of the store made by the current call
    runs,                 \* calls of check_for_changes made so far
    md5_file, md5_st, md5_pc, md5_digests   \* a get_md5 call followed step by step

rvars == <<store, fs, documents, pc, last_hashes, original_file_names,
           document_ids, changed_documents, deleted_document_ids, i, err,
           result, store_reads, runs>>
mvars == <<md5_file, md5_st, md5_pc, md5_digests>>
vars  == <<rvars, mvars>>

\* vs.get_document_infos(): three parallel lists
get_document_infos(recs) ==
    <<[k \in 1..Len(recs) |-> recs[k].hash],
      [k \in 1..Len(recs) |-> recs[k].path],
      [k \in 1..Len(recs) |-> recs[k].id]>>

\* the delete collection keeps the ids it was seeded with
deleted_init_seeded(ids) == ids

\* lines 45 and 48: seeded with set(document_ids), then rebound to []
deleted_init(ids) == <<>>

\* list.remove(x): drops the first occurrence of x
RECURSIVE list_remove(_, _)
list_remove(l, x) ==
    IF l = <<>> THEN <<>>
    ELSE IF Head(l) = x THEN Tail(l)
    ELSE <<Head(l)>> \o list_remove(Tail(l), x)

\* the delete collection is the very list read from the store
loop_body_aliased(doc, files, loc) ==
    IF doc.path \notin DOMAIN files
    THEN [loc EXCEPT !.err = "IOError"]
    ELSE LET current_hash == get_md5(files[doc.path])
             changed ==
                 IF doc.path \notin Elems(loc.original_file_names)
                 THEN Append(loc.changed_documents, doc)
                 ELSE IF current_hash \notin Elems(loc.last_hashes)
                 THEN Append(loc.changed_documents, doc)
                 ELSE loc.changed_documents
         IN  IF doc.id_ \notin Elems(loc.document_ids)
             THEN [loc EXCEPT !.changed_documents = changed,
                              !.err = "ValueError"]
             ELSE [loc EXCEPT !.changed_documents = changed,
                              !.document_ids =
                                  list_remove(loc.document_ids, doc.id_)]

\* lines 51-62: one turn of the loop over the locals loc
loop_body(doc, files, loc) ==
    IF doc.path \notin DOMAIN files
    THEN [loc EXCEPT !.err = "IOError"]                      \* open() fails
    ELSE LET current_hash == get_md5(files[doc.path])
             changed ==
                 IF doc.path \notin Elems(loc.original_file_names)
                 THEN Append(loc.changed_documents, doc)       \* Add
                 ELSE IF current_hash \notin Elems(loc.last_hashes)
                 THEN Append(loc.changed_documents, doc)       \* Update
                 ELSE loc.changed_documents
         IN  IF doc.id_ \notin Elems(loc.deleted_document_ids)
             THEN [loc EXCEPT !.changed_documents = changed,
                              !.err = "ValueError"]            \* remove raises
             ELSE [loc EXCEPT !.changed_documents = changed,
                              !.deleted_document_ids =
                                  list_remove(loc.deleted_document_ids, doc.id_)]

Locals ==
    [last_hashes          |-> last_hashes,
     original_file_names  |-> original_file_names,
     document_ids         |-> document_ids,
     changed_documents    |-> changed_documents,
     deleted_document_ids |-> deleted_document_ids,
     err                  |-> "none"]

MInit ==
    /\ md5_file = <<>>
    /\ md5_st = md5_open
    /\ md5_pc = "idle"
    /\ md5_digests = <<>>

Init ==
    /\ store \in {r \in SeqsUpTo(Records, MaxRecords) : WellFormed(r)}
    /\ documents \in {d \in SeqsUpTo(Documents, MaxDocs) : DistinctIds(d)}
    /\ fs \in {f \in FileSystems :
                 DOMAIN f \subseteq {documents[k].path : k \in 1..Len(documents)}}
    /\ pc = "idle"
    /\ last_hashes = <<>>
    /\ original_file_names = <<>>
    /\ document_ids = <<>>
    /\ changed_documents = <<>>
    /\ deleted_document_ids = <<>>
    /\ i = 1
    /\ err = "none"
    /\ result = <<>>
    /\ store_reads = 0
    /\ runs = 0
    /\ MInit

\* lines 44-48: read the snapshot, set up the two collections
Call ==
    /\ pc \in {"idle", "applied"}
    /\ runs < MaxRuns
    /\ runs' = runs + 1
    /\ LET infos == get_document_infos(store)
       IN  /\ last_hashes' = infos[1]
           /\ original_file_names' = infos[2]
           /\ document_ids' = infos[3]
           /\ deleted_document_ids' = deleted_init(infos[3])
    /\ store_reads' = 1
    /\ changed_documents' = <<>>
    /\ i' = 1
    /\ err' = "none"
    /\ result' = <<>>
    /\ pc' = "loop"
    /\ UNCHANGED <<store, fs, documents, mvars>>

\* lines 50-62: one document
Iterate ==
    /\ pc = "loop"
    /\ i <= Len(documents)
    /\ LET loc == loop_body(documents[i], fs, Locals)
       IN  /\ last_hashes' = loc.last_hashes
           /\ original_file_names' = loc.original_file_names
           /\ document_ids' = loc.document_ids
           /\ changed_documents' = loc.changed_documents
           /\ deleted_document_ids' = loc.deleted_document_ids
           /\ err' = loc.err
           /\ IF loc.err = "none"
              THEN i' = i + 1 /\ pc' = "loop"
              ELSE i' = i /\ pc' = "raised"
    /\ UNCHANGED <<store, fs, documents, result, store_reads, runs, mvars>>

\* lines 64-69: the loop is over
Return ==
    /\ pc = "loop"
    /\ i > Len(documents)
    /\ result' = <<changed_documents, deleted_document_ids>>
    /\ pc' = "returned"
    /\ UNCHANGED <<store, fs, documents, last_hashes, original_file_names,
                   document_ids, changed_documents, deleted_document_ids,
                   i, err, store_reads, runs, mvars>>

\* the index after the caller applied a plan: delete ids removed, a changed
\* document's digest replaced where its path is stored, inserted otherwise
RECURSIVE apply_changed(_, _, _)
apply_changed(recs, changed, files) ==
    IF changed = <<>> THEN recs
    ELSE LET doc == Head(changed)
             h   == get_md5(files[doc.path])
             at  == {k \in 1..Len(recs) : recs[k].path = doc.path}
             nxt == IF at = {}
                    THEN Append(recs, [id |-> doc.id_, path |-> doc.path, hash |-> h])
                    ELSE [k \in 1..Len(recs) |->
                            IF k \in at THEN [recs[k] EXCEPT !.hash = h] ELSE recs[k]]
         IN  apply_changed(nxt, Tail(changed), files)

apply_plan(recs, plan, files) ==
    apply_changed(SelectSeq(recs, LAMBDA r : r.id \notin Elems(plan[2])),
                  plan[1], files)

ApplyPlan ==
    /\ pc = "returned"
    /\ store' = apply_plan(store, result, fs)
    /\ pc' = "applied"
    /\ UNCHANGED <<fs, documents, last_hashes, original_file_names,
                   document_ids, changed_documents, deleted_document_ids,
                   i, err, result, store_reads, runs, mvars>>

Next == Call \/ Iterate \/ Return \/ ApplyPlan

Spec == Init /\ [][Next]_vars

\* ------------------------------------------- get_md5, followed step by step
Md5Lengths ==
    {n \in {k * ChunkSize + d : k \in 0..MaxChunks, d \in {-1, 0, 1}} : n >= 0}

Md5Files == {Pattern(n, s) : n \in Md5Lengths, s \in 1..NumSeeds}

RInit ==
    /\ store = <<>>
    /\ fs = <<>>
    /\ documents = <<>>
    /\ pc = "idle"
    /\ last_hashes = <<>>
    /\ original_file_names = <<>>
    /\ document_ids = <<>>
    /\ changed_documents = <<>>
    /\ deleted_document_ids = <<>>
    /\ i = 1
    /\ err = "none"
    /\ result = <<>>
    /\ store_reads = 0
    /\ runs = 0

InitMd5 ==
    /\ RInit
    /\ md5_file \in Md5Files
    /\ md5_st = md5_open
    /\ md5_pc = "idle"
    /\ md5_digests = <<>>

\* lines 24-25
Md5Open ==
    /\ md5_pc \in {"idle", "done"}
    /\ Len(md5_digests) < MaxCalls
    /\ md5_st' = md5_open
    /\ md5_pc' = "reading"
    /\ UNCHANGED <<md5_file, md5_digests, rvars>>

\* lines 26-27
Md5Read ==
    /\ md5_pc = "reading"
    /\ ~md5_st.eof
    /\ md5_st' = md5_read(md5_file, md5_st)
    /\ UNCHANGED <<md5_file, md5_pc, md5_digests, rvars>>

\* line 28
Md5Return ==
    /\ md5_pc = "reading"
    /\ md5_st.eof
    /\ md5_digests' = Append(md5_digests, hexdigest(md5_st.hasher))
    /\ md5_pc' = "done"
    /\ UNCHANGED <<md5_file, md5_st, rvars>>

NextMd5 == Md5Open \/ Md5Read \/ Md5Return

SpecMd5 == InitMd5 /\ [][NextMd5]_vars

\* ================================================================ claims ===
CurPaths    == {documents[k].path : k \in 1..Len(documents)}
StorePaths  == {store[k].path : k \in 1..Len(store)}
Ended       == pc \in {"returned", "raised"}
AllReadable == CurPaths \subseteq DOMAIN fs
UniquePaths ==
    \A a, b \in 1..Len(documents) : a # b => documents[a].path # documents[b].path
NoPlan      == <<>>
EmptyPlan   == << <<>>, <<>> >>

\* document k against the snapshot entry stored at its own path
IsAdd(k) == documents[k].path \notin StorePaths
IsUpdate(k) ==
    /\ documents[k].path \in DOMAIN fs
    /\ \E r \in Elems(store) :
          r.path = documents[k].path /\ r.hash # get_md5(fs[documents[k].path])
IsUnchanged(k) ==
    /\ documents[k].path \in DOMAIN fs
    /\ \E r \in Elems(store) :
          r.path = documents[k].path /\ r.hash = get_md5(fs[documents[k].path])

\* the loop's turn for document k got past the Add/Update test (line 59)
Classified(k) ==
    \/ pc \in {"loop", "returned"} /\ k < i
    \/ pc = "raised" /\ err = "ValueError" /\ k = i

Occurrences(l, x) == Cardinality({k \in 1..Len(l) : l[k] = x})

\* C1: the returned delete list holds exactly the ids of the snapshot records
\* whose path has no current document.
C1_DeleteSetExact ==
    pc = "returned" =>
        Elems(result[2]) =
            {store[k].id : k \in {n \in 1..Len(store) : store[n].path \notin CurPaths}}

\* C2: a document whose path is in the snapshot and whose digest differs from
\* the digest stored at that path is classified as changed, whatever the
\* digests stored at other paths.
C2_UpdateByOwnEntry ==
    \A k \in 1..Len(documents) :
        (Classified(k) /\ IsUpdate(k)) => documents[k] \in Elems(changed_documents)

\* C3: every document whose path is absent from the snapshot is returned as
\* an add; with an empty snapshot the call returns every document and no
\* delete.
C3_AddsReturned ==
    (Ended /\ AllReadable) =>
        /\ \A k \in 1..Len(documents) :
              IsAdd(k) => pc = "returned" /\ documents[k] \in Elems(result[1])
        /\ store = <<>> =>
              /\ pc = "returned"
              /\ Elems(result[1]) = Elems(documents)
              /\ result[2] = <<>>

\* C4: once the caller has applied the returned plan, the index holds exactly
\* the current documents' (path, digest) pairs, and the second reconcile of
\* the same documents returns an empty plan.
C4_Convergence ==
    (UniquePaths /\ AllReadable) =>
        /\ pc = "applied" =>
              {<<store[k].path, store[k].hash>> : k \in 1..Len(store)} =
              {<<documents[k].path, get_md5(fs[documents[k].path])>> :
                   k \in 1..Len(documents)}
        /\ (pc = "returned" /\ runs = 2) => result = EmptyPlan

\* C5: a document set that mirrors the snapshot (same paths, same digest at
\* each path) makes the call return an empty plan, whatever the ids.
Mirror ==
    /\ CurPaths = StorePaths
    /\ \A k \in 1..Len(documents) : IsUnchanged(k)

C5_NoOpRun ==
    (Ended /\ Mirror) => pc = "returned" /\ result = EmptyPlan

\* C6: when the call is over every current document has been classified, as
\* exactly one of add, update or unchanged: none is reported twice and an
\* unchanged one is not reported.
C6_Partition ==
    (Ended /\ AllReadable /\ UniquePaths) =>
        \A k \in 1..Len(documents) :
            /\ Classified(k)
            /\ Occurrences(changed_documents, documents[k]) <=
                   Occurrences(documents, documents[k])
            /\ IsUnchanged(k) => documents[k] \notin Elems(changed_documents)

\* C7: two current documents with the same path make the call fail with a
\* duplicate-path error, and no plan is returned.
HasDuplicatePath == ~UniquePaths

C7_DuplicatePathError ==
    (Ended /\ HasDuplicatePath /\ AllReadable) =>
        pc = "raised" /\ err = "DuplicatePathError" /\ result = NoPlan

ReconcileStep ==
    pc \in {"idle", "applied", "loop"} =>
        /\ store' = store
        /\ fs' = fs
        /\ documents' = documents
        /\ store_reads' = 1
        /\ <<last_hashes', original_file_names', document_ids'>> =
               get_document_infos(store)

\* C8: a step of a reconcile call (returning or raising) leaves the store's
\* records, the file system and the documents as they are, the call has read
\* the store once, and the three collections read from it stay as read.
C8_NoSideEffects == [][ReconcileStep]_vars

C8_Witness ==
    /\ pc = "raised"
    /\ err = "ValueError"
    /\ store # <<>>
    /\ documents[1].id_ \in Elems(document_ids)
    /\ store_reads = 1

\* C9: get_md5 reads chunks of at most 4096 bytes, the hasher has absorbed
\* exactly the bytes before the read position, the loop ends at end of file,
\* and every call returns the digest of the whole content hashed at once.
C9_ChunkedDigest ==
    /\ md5_pc = "reading" =>
          /\ Len(md5_st.chunk) <= ChunkSize
          /\ md5_st.hasher.absorbed = SubSeq(md5_file, 1, md5_st.pos)
          /\ md5_st.eof => md5_st.pos = Len(md5_file)
    /\ \A k \in 1..Len(md5_digests) :
          md5_digests[k] = hexdigest(update(md5_new, md5_file))

C9_Witness ==
    /\ md5_pc = "done"
    /\ Len(md5_digests) = 2
    /\ Len(md5_file) > ChunkSize
    /\ Len(md5_file) % ChunkSize # 0

====
